---- MODULE Spec2Model ----
(***************************************************************************)
(* A model of tvastar/autodoc:                                             *)
(*   - TransportMarkdownRecorder (transport.go): RoundTrip records the     *)
(*     request, invokes the underlying transport and records the response  *)
(*     into a markdown sink, filtering headers and capturing bodies.       *)
(*   - Markdown.WriteStructTable (markdown.go): renders the fields of a    *)
(*     struct type as a markdown table.                                    *)
(* Text is modelled as a sequence of tokens (strings); header names are    *)
(* sequences of single characters so that case folding is computed.        *)
(* RoundTrip is followed step by step, one step per call it makes on the   *)
(* sink or on the underlying transport, each of which may fail; a failed   *)
(* write is taken to add nothing to the sink. WriteStructTable is one      *)
(* step, computed by the recursive operators that follow its code.         *)
(***************************************************************************)
EXTENDS Integers, Sequences, FiniteSets, TLC

VARIABLES
    pc,       \* position of the one RoundTrip call: "idle", a step, or "done"
    cfg,      \* the fields of the TransportMarkdownRecorder
    req,      \* the *http.Request handed to RoundTrip
    resp,     \* the *http.Response obtained from the underlying transport
    streams,  \* the io.ReadCloser objects: id -> [data (unread bytes), closed]
    sink,     \* t.Writer: the sequence of successful Write calls (their bytes)
    ret,      \* what RoundTrip returned: [resp, err]
    events,   \* history of the call: sink writes attempted and transport calls
    wb,       \* what writeBody returned for the request and the response body
    underSaw, \* the request body bytes the underlying transport read
    tcall,    \* position of the one WriteStructTable call
    tin,      \* its input: the type of v and the index of the failing write
    tout      \* its result: the rows written and the error returned

tvars == <<pc, cfg, req, resp, streams, sink, ret, events, wb, underSaw>>
mvars == <<tcall, tin, tout>>
vars == <<pc, cfg, req, resp, streams, sink, ret, events, wb, underSaw,
          tcall, tin, tout>>

----------------------------------------------------------------------------
(* Bounds of the model.                                                    *)

\* the longest body, in bytes
MaxBodyLen == 1
\* the most header keys a request carries
MaxHeaders == 2
\* the most fields, nested ones included, of a generated struct type
MaxNodes == 3
\* the most comma-separated elements of a generated tag
MaxParts == 3
\* the most pointer indirections in front of a generated field type
MaxPtrDepth == 2

----------------------------------------------------------------------------
(* Text helpers.                                                           *)

RECURSIVE Flatten(_)
Flatten(ss) == IF ss = <<>> THEN <<>> ELSE Head(ss) \o Flatten(Tail(ss))

SeqsUpTo(S, n) == UNION {[1..k -> S] : k \in 0..n}

\* strings.ReplaceAll(s, old, ""), for a one-token old
RECURSIVE ReplaceAll(_, _)
ReplaceAll(s, old) ==
    IF s = <<>> THEN <<>>
    ELSE IF Head(s) = old THEN ReplaceAll(Tail(s), old)
    ELSE <<Head(s)>> \o ReplaceAll(Tail(s), old)

\* the characters header names are written in, with their byte values
Code == [c \in {"A", "D", "E", "T", "a", "d", "e", "g", "t"} |->
            CASE c = "A" -> 65 [] c = "D" -> 68 [] c = "E" -> 69
              [] c = "T" -> 84 [] c = "a" -> 97 [] c = "d" -> 100
              [] c = "e" -> 101 [] c = "g" -> 103 [] c = "t" -> 116]

\* simple case folding of one character
Fold(c) == CASE c = "A" -> "a" [] c = "D" -> "d" [] c = "E" -> "e"
             [] c = "T" -> "t" [] OTHER -> c

\* strings.EqualFold
EqualFold(s, t) ==
    /\ Len(s) = Len(t)
    /\ \A i \in 1..Len(s) : Fold(s[i]) = Fold(t[i])

\* s < t as Go compares strings: bytewise, a proper prefix first
RECURSIVE StringLess(_, _)
StringLess(s, t) ==
    IF t = <<>> THEN FALSE
    ELSE IF s = <<>> THEN TRUE
    ELSE IF Head(s) # Head(t) THEN Code[Head(s)] < Code[Head(t)]
    ELSE StringLess(Tail(s), Tail(t))

----------------------------------------------------------------------------
(* Inputs of the transport recorder.                                       *)

Date == <<"D", "a", "t", "e">>
date == <<"d", "a", "t", "e">>
DATE == <<"D", "A", "T", "E">>
Data == <<"D", "a", "t", "a">>
Etag == <<"E", "t", "a", "g">>

HeaderNames == {Date, DATE, Data, Etag}
HeaderValues == {<<"v">>, <<"v", "w">>}
HeaderMaps ==
    UNION {[K -> {vs}] : K \in {S \in SUBSET HeaderNames : Cardinality(S) <= MaxHeaders},
                         vs \in HeaderValues}
\* the headers the server answers with
RespHeader == [k \in {DATE, Etag} |-> <<"v">>]

Bodies == SeqsUpTo({"a", "b"}, MaxBodyLen)
RespBodies == {<<>>, <<"b", "a">>}
SkipLists == {<<>>, <<Date>>, <<date, Etag>>}
Methods == {"GET"}
\* (preamble, postamble) pairs: both unset, the preamble alone, both set
InfoPairs == {<<<<>>, <<>>>>,
              <<<<"## Exchange", "\n">>, <<>>>>,
              <<<<"## Exchange", "\n">>, <<"that was it", "\n">>>>}

NoBody == 0
NilError == [kind |-> "nil", at |-> ""]
NilResponse == [Proto |-> "", Status |-> "", Header |-> [k \in {} |-> <<>>], Body |-> NoBody]
NilRequest == [Method |-> "", URI |-> "", Header |-> [k \in {} |-> <<>>], Body |-> NoBody]

----------------------------------------------------------------------------
(* HeadersSkipper and header rendering.                                    *)

\* variant: the names are compared exactly, case included
SkipHeadersFixed_exact(s, header, value) ==
    \E i \in 1..Len(s) : s[i] = header
\* SkipHeaders.SkipHeaders: some entry of s equals header, ignoring case
SkipHeadersFixed(s, header, value) ==
    \E i \in 1..Len(s) : EqualFold(s[i], header)

\* TransportMarkdownRecorder.skipHeaders: the exclude map handed to WriteSubset
\* (a nil map, modelled as the empty map, when no skipper is configured)
skipHeaders(t, h) ==
    IF ~t.SkipHeaders.set THEN [k \in {} |-> TRUE]
    ELSE [k \in {k \in DOMAIN h : SkipHeadersFixed(t.SkipHeaders.list, k, h[k])} |-> TRUE]

RECURSIVE SortedKeys(_)
SortedKeys(K) ==
    IF K = {} THEN <<>>
    ELSE LET m == CHOOSE k \in K : \A o \in K \ {k} : StringLess(k, o)
         IN <<m>> \o SortedKeys(K \ {m})

RECURSIVE HeaderLines(_, _)
HeaderLines(key, values) ==
    IF values = <<>> THEN <<>>
    ELSE key \o <<": ", Head(values), "CR", "\n">> \o HeaderLines(key, Tail(values))

RECURSIVE WriteKeys(_, _, _)
WriteKeys(keys, h, exclude) ==
    IF keys = <<>> THEN <<>>
    ELSE (IF Head(keys) \in DOMAIN exclude /\ exclude[Head(keys)]
          THEN <<>> ELSE HeaderLines(Head(keys), h[Head(keys)]))
         \o WriteKeys(Tail(keys), h, exclude)

\* http.Header.WriteSubset: the keys sorted, one "Key: value\r\n" per value,
\* the excluded keys left out
WriteSubset(h, exclude) == WriteKeys(SortedKeys(DOMAIN h), h, exclude)

\* the header block as recordRequest / recordResponse write it
HeaderBlock(t, h) == ReplaceAll(WriteSubset(h, skipHeaders(t, h)), "CR") \o <<"\n">>

\* "<fence>" stands for the three backquotes of a markdown fence
FirstLine(a, b) == <<"<fence>", "\n", a, " ", b, "\n">>
ClosingFence == <<"\n", "<fence>", "\n">>

----------------------------------------------------------------------------
(* The recorder's configuration.                                           *)

WithRequestInfo ==
    /\ pc = "idle"
    /\ \E info \in InfoPairs :
         cfg' = [cfg EXCEPT !.RequestPreamble = info[1], !.RequestPostamble = info[2]]
    /\ UNCHANGED <<pc, req, resp, streams, sink, ret, events, wb, underSaw, mvars>>

WithResponseInfo ==
    /\ pc = "idle"
    /\ \E info \in InfoPairs :
         cfg' = [cfg EXCEPT !.ResponsePreamble = info[1], !.ResponsePostamble = info[2]]
    /\ UNCHANGED <<pc, req, resp, streams, sink, ret, events, wb, underSaw, mvars>>

WithSkipHeaders ==
    /\ pc = "idle"
    /\ \E skip \in SkipLists :
         cfg' = [cfg EXCEPT !.SkipHeaders = [set |-> TRUE, list |-> skip]]
    /\ UNCHANGED <<pc, req, resp, streams, sink, ret, events, wb, underSaw, mvars>>

----------------------------------------------------------------------------
(* RoundTrip, one step per sink write and one for the underlying transport.*)

WriteError(at) == [kind |-> "write", at |-> at]
TransportError == [kind |-> "transport", at |-> "transport"]

\* entries of the history
WriteEvent(phase, at, ok) == [ev |-> "write", phase |-> phase, at |-> at, ok |-> ok]
TransportEvent(ok) == [ev |-> "transport", phase |-> "", at |-> "transport", ok |-> ok]

\* a body stream: its unread bytes, the bytes it was created with, whether it
\* is closed, and who created it for which message
Stream(data, by, of) ==
    [data |-> data, orig |-> data, closed |-> FALSE, by |-> by, of |-> of]

\* variant: the response is recorded although the transport failed
TransportFailed_records(err) == [pc |-> "resp_pre", ret |-> [resp |-> "nil", err |-> err]]
\* RoundTrip's return when the underlying transport fails, and where it goes
TransportFailed(err) == [pc |-> "done", ret |-> [resp |-> "nil", err |-> err]]

\* RoundTrip's return when recordRequest fails
RequestRecordFailed(err) == [resp |-> "nil", err |-> err]

\* variant: the obtained response is returned with the failure
ResponseRecordFailed_keeps(err) == [resp |-> "resp", err |-> err]
\* RoundTrip's return when recordResponse fails
ResponseRecordFailed(err) == [resp |-> "nil", err |-> err]

RecordFailed(phase, err) ==
    IF phase = "req" THEN RequestRecordFailed(err) ELSE ResponseRecordFailed(err)

\* f.Write(data) at step here of recording phase: appended and on to
\* next (RoundTrip returning okRet there, if it returns), or failed and
\* RoundTrip returns the failure
SinkWrite(phase, here, next, data, okRet) ==
    /\ pc = here
    /\ \E ok \in BOOLEAN :
         /\ events' = Append(events, WriteEvent(phase, here, ok))
         /\ IF ok
            THEN /\ sink' = Append(sink, data)
                 /\ pc' = next
                 /\ ret' = okRet
            ELSE /\ sink' = sink
                 /\ pc' = "done"
                 /\ ret' = RecordFailed(phase, WriteError(here))
    /\ UNCHANGED <<cfg, req, resp, streams, wb, underSaw, mvars>>

\* RoundTrip is entered with a request
RoundTrip ==
    /\ pc = "idle"
    /\ \E m \in Methods, h \in HeaderMaps, hasBody \in BOOLEAN, b \in Bodies :
         /\ hasBody \/ b = <<>>
         /\ req' = [Method |-> m, URI |-> "/x", Header |-> h,
                    Body |-> IF hasBody THEN 1 ELSE NoBody]
         /\ streams' = IF hasBody THEN <<Stream(b, "caller", "req")>> ELSE <<>>
    /\ pc' = "req_pre"
    /\ UNCHANGED <<cfg, resp, sink, ret, events, wb, underSaw, mvars>>

RecordRequestPreamble ==
    SinkWrite("req", "req_pre", "req_line", cfg.RequestPreamble, ret)
RecordRequestLine ==
    SinkWrite("req", "req_line", "req_hdr", FirstLine(req.Method, req.URI), ret)
RecordRequestHeaders ==
    SinkWrite("req", "req_hdr", "req_body", HeaderBlock(cfg, req.Header), ret)
\* variant: the postamble is written where the closing fence belongs
RecordRequestFence_swapped ==
    SinkWrite("req", "req_fence", "req_post", cfg.RequestPostamble, ret)
RecordRequestFence ==
    SinkWrite("req", "req_fence", "req_post", ClosingFence, ret)
RecordRequestPostamble ==
    SinkWrite("req", "req_post", "transport", cfg.RequestPostamble, ret)

RecordResponsePreamble ==
    SinkWrite("resp", "resp_pre", "resp_line", cfg.ResponsePreamble, ret)
RecordResponseLine ==
    SinkWrite("resp", "resp_line", "resp_hdr", FirstLine(resp.Proto, resp.Status), ret)
RecordResponseHeaders ==
    SinkWrite("resp", "resp_hdr", "resp_body", HeaderBlock(cfg, resp.Header), ret)
RecordResponseFence ==
    SinkWrite("resp", "resp_fence", "resp_post", ClosingFence, ret)
\* the last write; RoundTrip then returns the response and no error
RecordResponsePostamble ==
    SinkWrite("resp", "resp_post", "done", cfg.ResponsePostamble,
              [resp |-> "resp", err |-> NilError])

\* what writeBody returns when w.Write(data) fails: the error of ReadAll
WriteBodyWriteFailed(readErr, writeErr) == readErr

Suffixes(s) == {SubSeq(s, k, Len(s)) : k \in 1..(Len(s) + 1)}

\* writeBody(w, &body) at step here, and recordRequest / recordResponse
\* going on to next or returning its error
writeBody(phase, here, next, body) ==
    /\ pc = here
    /\ IF body = NoBody
       THEN \* no stream: nothing is read, written or substituted
            /\ wb' = [wb EXCEPT ![phase] = "absent"]
            /\ pc' = next
            /\ UNCHANGED <<streams, sink, ret, events, req, resp>>
       ELSE \/ \* ioutil.ReadAll fails
               /\ \E rest \in Suffixes(streams[body].data) :
                    streams' = [streams EXCEPT ![body].data = rest]
               /\ wb' = [wb EXCEPT ![phase] = "err"]
               /\ ret' = RecordFailed(phase, [kind |-> "read", at |-> here])
               /\ pc' = "done"
               /\ UNCHANGED <<sink, events, req, resp>>
            \/ \* ReadAll drains the stream, w.Write(data) fails
               LET err == WriteBodyWriteFailed(NilError, WriteError(here)) IN
               /\ streams' = [streams EXCEPT ![body].data = <<>>]
               /\ events' = Append(events, WriteEvent(phase, here, FALSE))
               /\ IF err = NilError
                  THEN /\ wb' = [wb EXCEPT ![phase] = "nil"]
                       /\ pc' = next
                       /\ ret' = ret
                  ELSE /\ wb' = [wb EXCEPT ![phase] = "err"]
                       /\ pc' = "done"
                       /\ ret' = RecordFailed(phase, err)
               /\ UNCHANGED <<sink, req, resp>>
            \/ \* ReadAll and w.Write succeed: close, substitute a fresh reader
               LET data == streams[body].data IN
               /\ sink' = Append(sink, data)
               /\ events' = Append(events, WriteEvent(phase, here, TRUE))
               /\ streams' = Append([streams EXCEPT ![body].data = <<>>,
                                                    ![body].closed = TRUE],
                                    Stream(data, "recorder", phase))
               /\ IF phase = "req"
                  THEN req' = [req EXCEPT !.Body = Len(streams) + 1] /\ resp' = resp
                  ELSE resp' = [resp EXCEPT !.Body = Len(streams) + 1] /\ req' = req
               /\ wb' = [wb EXCEPT ![phase] = "nil"]
               /\ pc' = next
               /\ ret' = ret
    /\ UNCHANGED <<cfg, underSaw, mvars>>

RecordRequestBody == writeBody("req", "req_body", "req_fence", req.Body)
RecordResponseBody == writeBody("resp", "resp_body", "resp_fence", resp.Body)

\* t.transport().RoundTrip(req): the underlying transport consumes and closes
\* the request body, then fails or answers
Underlying ==
    /\ pc = "transport"
    /\ underSaw' = Append(underSaw,
                          IF req.Body = NoBody THEN <<>> ELSE streams[req.Body].data)
    /\ LET used == IF req.Body = NoBody THEN streams
                   ELSE [streams EXCEPT ![req.Body].data = <<>>,
                                        ![req.Body].closed = TRUE]
       IN \/ /\ ret' = TransportFailed(TransportError).ret
             /\ pc' = TransportFailed(TransportError).pc
             /\ events' = Append(events, TransportEvent(FALSE))
             /\ streams' = used
             /\ resp' = resp
          \/ /\ \E hasBody \in BOOLEAN, b \in RespBodies :
                  /\ hasBody \/ b = <<>>
                  /\ resp' = [Proto |-> "HTTP/1.1", Status |-> "200 OK", Header |-> RespHeader,
                              Body |-> IF hasBody THEN Len(used) + 1 ELSE NoBody]
                  /\ streams' = IF hasBody
                                THEN Append(used, Stream(b, "server", "resp"))
                                ELSE used
             /\ events' = Append(events, TransportEvent(TRUE))
             /\ pc' = "resp_pre"
             /\ ret' = ret
    /\ UNCHANGED <<cfg, req, sink, wb, mvars>>

----------------------------------------------------------------------------
(* reflect.Type and reflect.StructField, as far as the table renderer      *)
(* reads them. A type is [kind, name, elem, fields]: elem holds the        *)
(* element type of a pointer, slice, array or map, fields the fields of a  *)
(* struct. A field is [Name, Tag, Type]; a tag is [hasDoc, doc, json,      *)
(* help], each value a sequence of tokens.                                 *)

Prim(k) == [kind |-> k, name |-> k, elem |-> <<>>, fields |-> <<>>]
PtrTo(t) == [kind |-> "ptr", name |-> "", elem |-> <<t>>, fields |-> <<>>]
SliceOf(t) == [kind |-> "slice", name |-> "", elem |-> <<t>>, fields |-> <<>>]
MapOf(t) == [kind |-> "map", name |-> "", elem |-> <<t>>, fields |-> <<>>]
StructOf(n, fs) == [kind |-> "struct", name |-> n, elem |-> <<>>, fields |-> fs]

NoTag == [hasDoc |-> FALSE, doc |-> <<>>, json |-> <<>>, help |-> <<>>]
JsonTag(j) == [hasDoc |-> FALSE, doc |-> <<>>, json |-> j, help |-> <<>>]

\* the kinds reflect.Type.Elem accepts; it panics on every other kind
ElemKinds == {"array", "chan", "map", "ptr", "slice"}
NumberKinds == {"int", "int8", "int16", "int32", "int64", "uint", "uint8",
                "uint16", "uint32", "uint64", "float32", "float64"}

\* strings.Split(s, ","): the elements between the commas, at least one
RECURSIVE SplitFrom(_, _)
SplitFrom(s, cur) ==
    IF s = <<>> THEN <<cur>>
    ELSE IF Head(s) = "," THEN <<cur>> \o SplitFrom(Tail(s), <<>>)
    ELSE SplitFrom(Tail(s), Append(cur, Head(s)))
Split(s) == SplitFrom(s, <<>>)

\* contains(array, element)
contains(array, element) == \E i \in 1..Len(array) : array[i] = element

\* f.Tag.Lookup("doc"), else f.Tag.Get("json"), split at the commas
TagParts(f) == Split(IF f.Tag.hasDoc THEN f.Tag.doc ELSE f.Tag.json)

\* variant: "-" is taken as a name
structFieldName_nodash(f, parts) ==
    IF Len(parts) > 0 /\ parts[1] # <<>> THEN parts[1] ELSE <<f.Name>>
\* Markdown.structFieldName
structFieldName(f, parts) ==
    IF Len(parts) > 0 /\ parts[1] # <<>> /\ parts[1] # <<"-">>
    THEN parts[1]
    ELSE <<f.Name>>

\* variant: the embed element is not looked at
structTypeCell_noembed(t, parts) ==
    IF t.name = "" THEN "Object" ELSE t.name
\* the reflect.Struct case of Markdown.structFieldType
structTypeCell(t, parts) ==
    IF t.name = "" \/ contains(parts, <<"embed">>) THEN "Object" ELSE t.name

\* Markdown.structFieldType: the Type cell, or the unsupported-type error
RECURSIVE structFieldType(_, _)
structFieldType(t, parts) ==
    CASE t.kind = "bool" -> [type |-> "bool", err |-> "nil"]
      [] t.kind \in NumberKinds -> [type |-> "number", err |-> "nil"]
      [] t.kind \in {"array", "slice"} -> [type |-> "Array", err |-> "nil"]
      [] t.kind = "ptr" -> structFieldType(t.elem[1], parts)
      [] t.kind = "string" -> [type |-> "string", err |-> "nil"]
      [] t.kind = "struct" -> [type |-> structTypeCell(t, parts), err |-> "nil"]
      [] OTHER -> [type |-> "", err |-> "unsupported"]

\* Markdown.structFieldAttributes
structFieldAttributes(readonly, optional) ==
    LET result == (IF readonly THEN <<"readonly">> ELSE <<>>)
                  \o (IF optional THEN <<"optional">> ELSE <<>>)
    IN IF Len(result) = 0 THEN <<>>
       ELSE IF Len(result) = 1 THEN <<"(", result[1], ")">>
       ELSE <<"(", result[1], " ", result[2], ")">>

\* the flags writeStructField hands to structFieldAttributes
FieldFlags(parts) ==
    [readonly |-> contains(parts, <<"readonly">>),
     optional |-> contains(parts, <<"omitempty">>)]

\* Markdown.structDescription
structDescription(f) == f.Tag.help

\* the header WriteStructTable writes first
TableHeader == [name |-> <<"Field">>, type |-> "Type", attribs |-> <<>>,
                description |-> <<"Description">>]

\* the join writeStructField appends to the name before it recurses
JoinFor(sType) == IF sType = "Object" THEN <<".">> ELSE <<"[]", ".">>

\* m.Writer.Write: the write numbered st.failAt fails, the others append
SinkFails(st) == Len(st.written) + 1 = st.failAt

RECURSIVE writeStructFields(_, _, _)
RECURSIVE writeFieldsFrom(_, _, _, _)
RECURSIVE writeStructField(_, _, _)

\* Markdown.writeStructFields: v.Elem() until a struct is reached (a panic
\* when the kind has no element type), then the fields in order
writeStructFields(namePrefix, v, st) ==
    IF v.kind = "struct" THEN writeFieldsFrom(namePrefix, v.fields, 1, st)
    ELSE IF v.kind \in ElemKinds THEN writeStructFields(namePrefix, v.elem[1], st)
    ELSE [st EXCEPT !.err = "panic"]

\* variant: the loop starts one field late
writeFieldsFrom_skipfirst(namePrefix, fields, kk, st) ==
    IF kk >= Len(fields) THEN st
    ELSE LET st2 == writeStructField(namePrefix, fields[kk + 1], st)
         IN IF st2.err # "nil" THEN st2
            ELSE writeFieldsFrom(namePrefix, fields, kk + 1, st2)
\* the loop over v.Field(kk), left at the first error
writeFieldsFrom(namePrefix, fields, kk, st) ==
    IF kk > Len(fields) THEN st
    ELSE LET st2 == writeStructField(namePrefix, fields[kk], st)
         IN IF st2.err # "nil" THEN st2
            ELSE writeFieldsFrom(namePrefix, fields, kk + 1, st2)

\* Markdown.writeStructField
writeStructField(namePrefix, f, st) ==
    LET parts == TagParts(f)
        name == namePrefix \o structFieldName(f, parts)
        ty == structFieldType(f.Type, parts)
        flags == FieldFlags(parts)
        row == [name |-> name, type |-> ty.type,
                attribs |-> structFieldAttributes(flags.readonly, flags.optional),
                description |-> structDescription(f)]
    IN IF ty.err # "nil" THEN [st EXCEPT !.err = ty.err]
       ELSE IF SinkFails(st) THEN [st EXCEPT !.err = "write"]
       ELSE LET st2 == [st EXCEPT !.written = Append(st.written, row)]
            IN IF ty.type \in {"Object", "Array"}
               THEN writeStructFields(name \o JoinFor(ty.type), f.Type, st2)
               ELSE st2

\* the loop of WriteStructTable over the pointers of the root type
RECURSIVE UnwrapPtr(_)
UnwrapPtr(t) == IF t.kind = "ptr" THEN UnwrapPtr(t.elem[1]) ELSE t

\* Markdown.WriteStructTable on a value of type t
WriteStructTableResult(t, failAt) ==
    LET st0 == [written |-> <<>>, err |-> "nil", failAt |-> failAt]
    IN IF SinkFails(st0) THEN [st0 EXCEPT !.err = "write"]
       ELSE writeStructFields(<<>>, UnwrapPtr(t),
                              [st0 EXCEPT !.written = <<TableHeader>>])

\* the call WriteStructTable(v): the sink fails at one write or never
WriteStructTable ==
    /\ tcall = "idle"
    /\ \E failAt \in 0..Len(WriteStructTableResult(tin, 0).written) :
         LET st == WriteStructTableResult(tin, failAt)
         IN tout' = [written |-> st.written, err |-> st.err]
    /\ tcall' = "done"
    /\ UNCHANGED <<tin, tvars>>

----------------------------------------------------------------------------
(* The types WriteStructTable is called on.                                *)

FieldNameAt == <<"A", "B", "C", "D", "E", "F">>
Named(fs) ==
    [i \in 1..Len(fs) |-> [Name |-> FieldNameAt[i], Tag |-> fs[i].Tag, Type |-> fs[i].Type]]

\* field types without fields of their own: a string, a map (unsupported)
\* and a slice of strings
TreeLeaves == {Prim("string"), MapOf(Prim("string")), SliceOf(Prim("string"))}

\* how a struct-typed field is declared: the struct's name, the wrapping
\* and the tag
StructShapes ==
    {[name |-> "", wrap |-> "plain", tag |-> NoTag],
     [name |-> "", wrap |-> "ptr", tag |-> NoTag],
     [name |-> "", wrap |-> "slice", tag |-> NoTag],
     [name |-> "T", wrap |-> "plain", tag |-> NoTag],
     [name |-> "T", wrap |-> "plain", tag |-> JsonTag(<<"x", ",", "embed">>)]}
Wrap(w, t) == CASE w = "ptr" -> PtrTo(t) [] w = "slice" -> SliceOf(t) [] OTHER -> t

\* the field lists with at most n fields in all, nested ones included
RECURSIVE FieldSeqs(_)
FieldSeqs(n) ==
    {<<>>} \cup
    UNION {{<<f>> \o rest :
              f \in {[Tag |-> NoTag, Type |-> l] : l \in TreeLeaves}
                    \cup {[Tag |-> sh.tag,
                           Type |-> Wrap(sh.wrap, StructOf(sh.name, Named(fs)))] :
                             sh \in StructShapes, fs \in FieldSeqs(k - 1)},
              rest \in FieldSeqs(n - k)} : k \in 1..n}

TreeInputs ==
    {StructOf("", Named(fs)) : fs \in FieldSeqs(MaxNodes)}
    \cup {Prim("string"), SliceOf(StructOf("", Named(<<[Tag |-> NoTag, Type |-> Prim("int")]>>)))}

\* tags: the elements joined with commas
TagElements == {<<>>, <<"-">>, <<"x">>, <<"readonly">>, <<"omitempty">>, <<"embed">>}
RECURSIVE Join(_)
Join(es) == IF Len(es) = 1 THEN es[1] ELSE es[1] \o <<",">> \o Join(Tail(es))
TagStrings == {Join(es) : es \in UNION {[1..k -> TagElements] : k \in 1..MaxParts}}
DocOptions == {[hasDoc |-> FALSE, doc |-> <<>>], [hasDoc |-> TRUE, doc |-> <<>>],
               [hasDoc |-> TRUE, doc |-> <<"y">>],
               [hasDoc |-> TRUE, doc |-> <<"-", ",", "readonly">>]}
OneField(tag, type) == StructOf("", <<[Name |-> "A", Tag |-> tag, Type |-> type]>>)
Inner == <<[Name |-> "B", Tag |-> NoTag, Type |-> Prim("string")]>>

\* one field, every tag
TagInputs ==
    {PtrTo(OneField([hasDoc |-> d.hasDoc, doc |-> d.doc, json |-> j, help |-> <<>>], ty)) :
        d \in DocOptions, j \in TagStrings, ty \in {Prim("uint8"), StructOf("T", Inner)}}

RECURSIVE PtrChain(_, _)
PtrChain(t, d) == IF d = 0 THEN t ELSE PtrTo(PtrChain(t, d - 1))
BaseTypes ==
    {Prim("bool"), Prim("int"), Prim("uint8"), Prim("float64"), Prim("string"),
     Prim("interface"), MapOf(Prim("int")), SliceOf(Prim("string")),
     SliceOf(PtrTo(StructOf("T", Inner))), SliceOf(MapOf(Prim("int"))),
     StructOf("", Inner), StructOf("T", Inner), StructOf("Object", Inner),
     StructOf("Array", Inner)}
TypeTags == {NoTag, JsonTag(<<",", "embed">>),
             [hasDoc |-> FALSE, doc |-> <<>>, json |-> <<"x">>, help |-> <<"help">>]}

\* one field, every type
TypeInputs ==
    {OneField(tg, PtrChain(b, d)) : tg \in TypeTags, b \in BaseTypes, d \in 0..MaxPtrDepth}

TableInputs == TreeInputs \cup TagInputs \cup TypeInputs

InitTransport ==
    /\ pc = "idle"
    /\ cfg = [SkipHeaders |-> [set |-> FALSE, list |-> <<>>],
              RequestPreamble |-> <<>>, RequestPostamble |-> <<>>,
              ResponsePreamble |-> <<>>, ResponsePostamble |-> <<>>]
    /\ req = NilRequest
    /\ resp = NilResponse
    /\ streams = <<>>
    /\ sink = <<>>
    /\ ret = [resp |-> "nil", err |-> NilError]
    /\ events = <<>>
    /\ wb = [req |-> "none", resp |-> "none"]
    /\ underSaw = <<>>

InitTableIdle ==
    /\ tcall = "idle"
    /\ tin = <<>>
    /\ tout = <<>>

Init == InitTransport /\ InitTableIdle

Next ==
    \/ WithRequestInfo
    \/ WithResponseInfo
    \/ WithSkipHeaders
    \/ RoundTrip
    \/ RecordRequestPreamble
    \/ RecordRequestLine
    \/ RecordRequestHeaders
    \/ RecordRequestBody
    \/ RecordRequestFence
    \/ RecordRequestPostamble
    \/ Underlying
    \/ RecordResponsePreamble
    \/ RecordResponseLine
    \/ RecordResponseHeaders
    \/ RecordResponseBody
    \/ RecordResponseFence
    \/ RecordResponsePostamble

Spec == Init /\ [][Next]_vars

\* the table renderer alone: one call of WriteStructTable on a generated type
InitTable ==
    /\ InitTransport
    /\ tcall = "idle"
    /\ tin \in TableInputs
    /\ tout = <<>>

NextTable == WriteStructTable

SpecTable == InitTable /\ [][NextTable]_vars

----------------------------------------------------------------------------
(* Properties of the transport recorder.                                   *)

IsWrite(e, phase) == e.ev = "write" /\ e.phase = phase
TransportEvents == {i \in DOMAIN events : events[i].ev = "transport"}
TransportOk == \E i \in TransportEvents : events[i].ok
AllWritesOk == \A i \in DOMAIN events : events[i].ok
Last(q) == q[Len(q)]

\* the stream the caller (or the server) created for the body of a message
OrigStream(phase) ==
    CHOOSE i \in DOMAIN streams : streams[i].of = phase /\ streams[i].by # "recorder"
BodyOf(phase) == IF phase = "req" THEN req.Body ELSE resp.Body

\* C1: a failed sink write while the request is recorded makes RoundTrip
\* return that failure, and the underlying transport is never invoked.
C1_RequestWriteFailureAborts ==
    \A i \in DOMAIN events :
        (IsWrite(events[i], "req") /\ ~events[i].ok) =>
            /\ pc = "done"
            /\ ret = [resp |-> "nil", err |-> WriteError(events[i].at)]
            /\ TransportEvents = {}

\* C2: once writeBody has read a body and returned no error, the original
\* stream is closed and the body field holds a fresh stream with the same
\* bytes, which the consumer then reads; an absent body stays absent and
\* nothing is written for it.
C2_BodyCaptureTransparent ==
    \A phase \in {"req", "resp"} :
        /\ wb[phase] = "nil" =>
             LET o == OrigStream(phase)
                 b == BodyOf(phase)
             IN /\ streams[o].closed
                /\ b # NoBody /\ b # o
                /\ streams[b].by = "recorder"
                /\ streams[b].orig = streams[o].orig
                /\ (phase = "req" /\ underSaw # <<>>) => underSaw[1] = streams[o].orig
                /\ (phase = "resp" /\ pc = "done" /\ ret.resp = "resp") =>
                       streams[b].data = streams[o].orig
        /\ wb[phase] = "absent" =>
             /\ BodyOf(phase) = NoBody
             /\ \A i \in DOMAIN events :
                    ~(IsWrite(events[i], phase) /\ events[i].at = phase \o "_body")

\* recordResponse has returned a failure after the transport answered
ResponseRecordingFailed ==
    /\ pc = "done"
    /\ TransportOk
    /\ \/ wb.resp = "err"
       \/ IsWrite(Last(events), "resp") /\ ~Last(events).ok
ResponseRecordingFailure ==
    IF IsWrite(Last(events), "resp") /\ ~Last(events).ok
    THEN WriteError(Last(events).at)
    ELSE [kind |-> "read", at |-> "resp_body"]

\* C3 as stated: when the transport succeeds and recording the response
\* fails, RoundTrip returns the response together with the failure.
C3_ResponseWithFailure ==
    ResponseRecordingFailed => (ret.resp = "resp" /\ ret.err # NilError)

\* C3 as amended: when the transport succeeds and recordResponse returns a
\* failure, RoundTrip returns a nil response together with that failure.
C3_NilResponseWithFailure ==
    ResponseRecordingFailed =>
        (ret.resp = "nil" /\ ret.err = ResponseRecordingFailure)

C3_Witness ==
    /\ ResponseRecordingFailed
    /\ Last(events).at = "resp_post"
    /\ resp.Body # NoBody

\* C4: the request is recorded, then the transport is invoked, at most
\* once, then the response is recorded; a transport failure is returned
\* unchanged and nothing of the response is written.
C4_PhasesSequential ==
    /\ Cardinality(TransportEvents) <= 1
    /\ \A i \in DOMAIN events, j \in TransportEvents :
          /\ IsWrite(events[i], "req") => i < j
          /\ IsWrite(events[i], "resp") => (j < i /\ events[j].ok)
    /\ (\E i \in DOMAIN events : IsWrite(events[i], "resp")) => TransportEvents # {}
    /\ \A j \in TransportEvents :
          ~events[j].ok =>
              /\ pc = "done"
              /\ ret = [resp |-> "nil", err |-> TransportError]
              /\ j = Len(events)
              /\ Len(sink) = Cardinality({i \in 1..(j - 1) : events[i].ok})

C4_Witness ==
    /\ pc = "done"
    /\ \E j \in TransportEvents : ~events[j].ok
    /\ Len(sink) = 6

\* the bytes a message's body was created with, none when it has no body
BodyBytes(phase) ==
    IF \E i \in DOMAIN streams : streams[i].of = phase
    THEN streams[OrigStream(phase)].orig
    ELSE <<>>

TranscriptBlock(preamble, a, b, headerLines, body, postamble) ==
    preamble \o <<"<fence>", "\n">> \o <<a, " ", b, "\n">> \o headerLines
             \o body \o <<"\n", "<fence>", "\n">> \o postamble

RECURSIVE LinesOf(_, _)
LinesOf(text, cur) ==
    IF text = <<>> THEN (IF cur = <<>> THEN {} ELSE {cur})
    ELSE IF Head(text) = "\n" THEN {cur} \cup LinesOf(Tail(text), <<>>)
    ELSE LinesOf(Tail(text), Append(cur, Head(text)))

\* a line "name: value" is recorded for the header
HasHeaderLine(text, name) ==
    \E l \in LinesOf(text, <<>>) :
        /\ Len(l) > Len(name)
        /\ SubSeq(l, 1, Len(name)) = name
        /\ l[Len(name) + 1] = ": "

LowerCase(s) == [i \in 1..Len(s) |-> Fold(s[i])]
InSkipList(name) ==
    /\ cfg.SkipHeaders.set
    /\ \E i \in 1..Len(cfg.SkipHeaders.list) :
          LowerCase(cfg.SkipHeaders.list[i]) = LowerCase(name)

\* the header block is the write before the body is captured
HeaderBlockWritten(phase) == pc = phase \o "_body"
HeaderOf(phase) == IF phase = "req" THEN req.Header ELSE resp.Header

\* C6: a header is left out of the recorded header block exactly when its
\* name equals an entry of the skip list, ignoring case; with no filter
\* configured every header is recorded.
C6_HeaderFiltering ==
    \A phase \in {"req", "resp"} :
        HeaderBlockWritten(phase) =>
            \A name \in DOMAIN HeaderOf(phase) :
                HasHeaderLine(Last(sink), name) <=> ~InSkipList(name)

C6_Witness ==
    /\ HeaderBlockWritten("req")
    /\ cfg.SkipHeaders.list = <<Date>>
    /\ DOMAIN req.Header = {DATE, Data}
    /\ ~HasHeaderLine(Last(sink), DATE)
    /\ HasHeaderLine(Last(sink), Data)

----------------------------------------------------------------------------
(* Properties of the table renderer.                                       *)

\* the type behind the pointers
RECURSIVE Deref(_)
Deref(t) == IF t.kind = "ptr" THEN Deref(t.elem[1]) ELSE t

\* element types lead from t to a struct
RECURSIVE ReachesStruct(_)
ReachesStruct(t) ==
    \/ t.kind = "struct"
    \/ t.kind \in ElemKinds /\ ReachesStruct(t.elem[1])
RECURSIVE StructUnder(_)
StructUnder(t) == IF t.kind = "struct" THEN t ELSE StructUnder(t.elem[1])

\* the Type cell of a field's row
CellOf(f) == structFieldType(f.Type, TagParts(f)).type

\* what joins a field's name to the names of its nested rows, <<>> when it
\* has none. By "cell" the field's Type cell decides; by "type" every field
\* of structured type, and every sequence of structured elements, has them.
JoinOf(f, by) ==
    IF ~ReachesStruct(f.Type) THEN <<>>
    ELSE IF by = "cell"
    THEN (CASE CellOf(f) = "Object" -> <<".">>
            [] CellOf(f) = "Array" -> <<"[]", ".">>
            [] OTHER -> <<>>)
    ELSE (CASE Deref(f.Type).kind = "struct" -> <<".">>
            [] Deref(f.Type).kind \in {"slice", "array"} -> <<"[]", ".">>
            [] OTHER -> <<>>)

\* the rows of a struct, each as the path of field indexes leading to it
RECURSIVE PathsOf(_, _)
PathsOf(S, by) ==
    UNION {{<<i>>} \cup
           (IF JoinOf(S.fields[i], by) = <<>> THEN {}
            ELSE {<<i>> \o q : q \in PathsOf(StructUnder(S.fields[i].Type), by)}) :
           i \in 1..Len(S.fields)}

\* p before q in declaration order, depth first: a row before its nested
\* rows, an earlier field and all its nested rows before a later field
RECURSIVE PathLess(_, _)
PathLess(p, q) ==
    IF q = <<>> THEN FALSE
    ELSE IF p = <<>> THEN TRUE
    ELSE IF Head(p) # Head(q) THEN Head(p) < Head(q)
    ELSE PathLess(Tail(p), Tail(q))

RECURSIVE InOrder(_)
InOrder(P) ==
    IF P = {} THEN <<>>
    ELSE LET m == CHOOSE p \in P : \A q \in P \ {p} : PathLess(p, q)
         IN <<m>> \o InOrder(P \ {m})

RECURSIVE FieldAt(_, _)
FieldAt(S, p) ==
    IF Len(p) = 1 THEN S.fields[p[1]]
    ELSE FieldAt(StructUnder(S.fields[p[1]].Type), Tail(p))

RECURSIVE RowName(_, _, _)
RowName(S, p, by) ==
    LET f == S.fields[p[1]]
        own == structFieldName(f, TagParts(f))
    IN IF Len(p) = 1 THEN own
       ELSE own \o JoinOf(f, by) \o RowName(StructUnder(f.Type), Tail(p), by)

Root == StructUnder(tin)
ExpectedPaths(by) == InOrder(PathsOf(Root, by))
ExpectedNames(by) ==
    LET ps == ExpectedPaths(by) IN [i \in 1..Len(ps) |-> RowName(Root, ps[i], by)]
WrittenNames ==
    [i \in 1..(Len(tout.written) - 1) |-> tout.written[i + 1].name]
IsPrefix(a, b) == Len(a) <= Len(b) /\ a = SubSeq(b, 1, Len(a))

TableDone == tcall = "done" /\ ReachesStruct(tin)
\* the rows after the header, each with the field it was written for
RowFields ==
    LET ps == ExpectedPaths("cell")
    IN [i \in 1..(Len(tout.written) - 1) |->
           [row |-> tout.written[i + 1], path |-> ps[i], field |-> FieldAt(Root, ps[i])]]
Range(q) == {q[i] : i \in DOMAIN q}
StructFields == {rf \in Range(RowFields) : Deref(rf.field.Type).kind = "struct"}

\* C7 as stated: a field of structured type, reached directly or through
\* pointers, always has the Type cell "Object".
C7_StructAlwaysObject ==
    TableDone => \A rf \in StructFields : rf.row.type = "Object"

\* C7 as amended: a field of structured type, reached directly or through
\* pointers, has the Type cell "Object" when the type is anonymous or the
\* tag has the element embed, and the type's own name otherwise.
C7_StructObjectOrName ==
    TableDone =>
        \A rf \in StructFields :
            LET t == Deref(rf.field.Type)
            IN rf.row.type = IF t.name = "" \/ <<"embed">> \in Range(TagParts(rf.field))
                             THEN "Object" ELSE t.name

C7_Witness ==
    /\ TableDone
    /\ \E rf \in StructFields :
          /\ rf.field.Type.kind = "ptr"
          /\ Deref(rf.field.Type).name = "T"
          /\ rf.row.type = "T"

SelectedTag(f) == IF f.Tag.hasDoc THEN f.Tag.doc ELSE f.Tag.json
Commas(tag) == {i \in 1..Len(tag) : tag[i] = ","}
NumElements(tag) == Cardinality(Commas(tag)) + 1
Element(tag, k) ==
    LET before == {i \in Commas(tag) : Cardinality({j \in Commas(tag) : j <= i}) = k - 1}
        after == {i \in Commas(tag) : Cardinality({j \in Commas(tag) : j <= i}) = k}
        from == IF before = {} THEN 1 ELSE (CHOOSE i \in before : TRUE) + 1
        to == IF after = {} THEN Len(tag) ELSE (CHOOSE i \in after : TRUE) - 1
    IN SubSeq(tag, from, to)
NameByTag(f) ==
    LET first == Element(SelectedTag(f), 1)
    IN IF first = <<>> \/ first = <<"-">> THEN <<f.Name>> ELSE first
Flagged(f, flag, from) ==
    \E k \in from..NumElements(SelectedTag(f)) : Element(SelectedTag(f), k) = <<flag>>
TopFields == {rf \in Range(RowFields) : Len(rf.path) = 1}

\* C9 as stated: the name is the first element of the selected tag, or the
\* declared name when that is empty or "-"; the row is readonly / optional
\* exactly when readonly / omitempty is among the elements after the first.
C9_FlagsAfterFirst ==
    TableDone =>
        \A rf \in TopFields :
            /\ rf.row.name = NameByTag(rf.field)
            /\ "readonly" \in Range(rf.row.attribs) <=> Flagged(rf.field, "readonly", 2)
            /\ "optional" \in Range(rf.row.attribs) <=> Flagged(rf.field, "omitempty", 2)

\* C9 as amended: the name is the first element of the selected tag, or the
\* declared name when that is empty or "-"; the row is readonly / optional
\* exactly when readonly / omitempty is among the elements, the first
\* included.
C9_FlagsAnywhere ==
    TableDone =>
        \A rf \in TopFields :
            /\ rf.row.name = NameByTag(rf.field)
            /\ "readonly" \in Range(rf.row.attribs) <=> Flagged(rf.field, "readonly", 1)
            /\ "optional" \in Range(rf.row.attribs) <=> Flagged(rf.field, "omitempty", 1)

C9_Witness ==
    /\ TableDone
    /\ \E rf \in TopFields :
          /\ rf.field.Tag.json = <<"omitempty", ",", "readonly">>
          /\ ~rf.field.Tag.hasDoc
          /\ rf.row.name = <<"omitempty">>
          /\ rf.row.attribs = <<"(", "readonly", " ", "optional", ")">>

\* C10: after the row of an Array field whose elements are not structured,
\* WriteStructTable returns an error: it neither crashes nor succeeds.
C10_ArrayOfPlainElementsFails ==
    TableDone =>
        \A rf \in Range(RowFields) :
            (rf.row.type = "Array" /\ ~ReachesStruct(rf.field.Type)) =>
                tout.err \in {"unsupported", "write"}

====
